---- MODULE Spec2Model ----
(***************************************************************************)
(* Model of proto/simple_control.py: a P4Runtime controller that opens a   *)
(* StreamChannel, performs master arbitration, installs the forwarding     *)
(* pipeline and inserts two LPM table entries, while a request generator   *)
(* re-sends the arbitration claim every two seconds.                       *)
(***************************************************************************)
EXTENDS Integers, Sequences, FiniteSets

(* ------------------------------ bounds -------------------------------- *)
\* Largest value of the model clock (time units are seconds).
MaxTime == 4
\* Largest number of messages the device pushes on the stream.
MaxInbox == 2
\* Program descriptions of the lookup specification: number of entries of
\* the table list (or the action list) and largest identifier.
MaxEntries == 4
MaxId == 1
\* Arguments of insert_lpm: number of dot-separated pieces of dst_ip.
MaxParts == 5

(* ------------------------- program constants -------------------------- *)
\* time.sleep(2) in the request generator.
SleepInterval == 2
\* Python's None; identifiers are unsigned, so -1 is free.
None == -1
table_name == "my_ingress.ipv4_match"
action_name == "my_ingress.to_port_action"
match_field == "hdr.ipv4.dst_addr"
PortParam == "port"
\* Names that are not the requested ones.
OtherName == "other"

\* Dotted IPv4 text is a sequence of characters.
IP1 == <<"1", "0", ".", "0", ".", "0", ".", "1">>
IP2 == <<"1", "0", ".", "0", ".", "0", ".", "2">>
\* The two insert_lpm calls of main: (dst_ip, prefix_len, out_port).
Rules ==
  << [dst_ip |-> IP1, prefix_len |-> 32, out_port |-> 0],
     [dst_ip |-> IP2, prefix_len |-> 32, out_port |-> 1] >>

(* ------------------------------ helpers ------------------------------- *)
DigitChars == <<"0", "1", "2", "3", "4", "5", "6", "7", "8", "9">>

IsDigit(c) == \E i \in DOMAIN DigitChars : DigitChars[i] = c

DigitVal(c) == (CHOOSE i \in DOMAIN DigitChars : DigitChars[i] = c) - 1

\* str.split(sep): the list of the pieces between separators (pieces may
\* be empty).
RECURSIVE SplitFrom(_, _, _)
SplitFrom(s, sep, cur) ==
  IF s = <<>> THEN <<cur>>
  ELSE IF Head(s) = sep THEN <<cur>> \o SplitFrom(Tail(s), sep, <<>>)
  ELSE SplitFrom(Tail(s), sep, Append(cur, Head(s)))

Split(s, sep) == SplitFrom(s, sep, <<>>)

\* int(text) for unsigned decimal text; the empty text and any non-digit
\* raise ValueError.
IntOk(t) == t # <<>> /\ \A i \in DOMAIN t : IsDigit(t[i])

RECURSIVE IntVal(_)
IntVal(t) ==
  IF t = <<>> THEN 0
  ELSE 10 * IntVal(SubSeq(t, 1, Len(t) - 1)) + DigitVal(t[Len(t)])

\* Mutant: the bytes come out in the reverse order of the pieces.
ipv4_to_bytes_Reversed(ip) ==
  LET parts == Split(ip, ".")
      n == Len(parts)
  IN IF \A i \in DOMAIN parts : IntOk(parts[i]) /\ IntVal(parts[i]) < 256
     THEN [ok |-> TRUE, val |-> [i \in DOMAIN parts |-> IntVal(parts[n + 1 - i])]]
     ELSE [ok |-> FALSE, val |-> <<>>]

\* bytes(map(int, ip.split("."))): one byte per piece; ValueError when a
\* piece is not an integer or is outside range(256).
ipv4_to_bytes(ip) ==
  LET parts == Split(ip, ".")
  IN IF \A i \in DOMAIN parts : IntOk(parts[i]) /\ IntVal(parts[i]) < 256
     THEN [ok |-> TRUE, val |-> [i \in DOMAIN parts |-> IntVal(parts[i])]]
     ELSE [ok |-> FALSE, val |-> <<>>]

RECURSIVE Pow(_, _)
Pow(b, e) == IF e = 0 THEN 1 ELSE b * Pow(b, e - 1)

\* Mutant: the value is reduced modulo 256^length instead of raising.
to_bytes_Truncating(n, length) ==
  [ok |-> n >= 0,
   val |-> [i \in 1..length |-> (n \div Pow(256, length - i)) % 256]]

\* int.to_bytes(length, "big"): OverflowError when the value does not fit.
to_bytes(n, length) ==
  IF n < 0 \/ n >= Pow(256, length)
  THEN [ok |-> FALSE, val |-> <<>>]
  ELSE [ok |-> TRUE,
        val |-> [i \in 1..length |-> (n \div Pow(256, length - i)) % 256]]

Min(S) == CHOOSE x \in S : \A y \in S : x <= y
Max(S) == CHOOSE x \in S : \A y \in S : x >= y

\* Python truthiness of an identifier variable: None and 0 are false.
Truthy(x) == x # None /\ x # 0

\* all([...]) over a list of identifier variables.
all(ids) == \A i \in DOMAIN ids : Truthy(ids[i])

(* ----------------------- identifier lookup ---------------------------- *)
\* for t in p4info.tables: the first table with the requested name gives
\* table_id; every match field of that table with the requested name
\* assigns match_field_id (the inner loop has no break); then break.
ScanTables(tables) ==
  LET hits == {i \in DOMAIN tables : tables[i].preamble.name = table_name}
  IN IF hits = {}
     THEN [table_id |-> None, match_field_id |-> None]
     ELSE LET t == tables[Min(hits)]
              mfs == {j \in DOMAIN t.match_fields :
                        t.match_fields[j].name = match_field}
          IN [table_id |-> t.preamble.id,
              match_field_id |->
                IF mfs = {} THEN None ELSE t.match_fields[Max(mfs)].id]

\* Mutant: the parameter name is not looked at; the first parameter is taken.
ScanActions_AlwaysFirst(actions) ==
  LET hits == {i \in DOMAIN actions : actions[i].preamble.name = action_name}
  IN IF hits = {}
     THEN [action_id |-> None, param_id |-> None]
     ELSE LET a == actions[Min(hits)]
          IN [action_id |-> a.preamble.id,
              param_id |-> IF a.params # <<>> THEN a.params[1].id ELSE None]

\* for a in p4info.actions: the first action with the requested name gives
\* action_id; the first parameter named "port" gives param_id, else the
\* first parameter when there is one; then break.
ScanActions(actions) ==
  LET hits == {i \in DOMAIN actions : actions[i].preamble.name = action_name}
  IN IF hits = {}
     THEN [action_id |-> None, param_id |-> None]
     ELSE LET a == actions[Min(hits)]
              ps == {j \in DOMAIN a.params : a.params[j].name = PortParam}
              named == IF ps = {} THEN None ELSE a.params[Min(ps)].id
          IN [action_id |-> a.preamble.id,
              param_id |->
                IF named = None /\ a.params # <<>>
                THEN a.params[1].id ELSE named]

\* The four identifier variables after both loops.
LookupIds(doc) ==
  LET ts == ScanTables(doc.tables)
      as == ScanActions(doc.actions)
  IN [table_id |-> ts.table_id, match_field_id |-> ts.match_field_id,
      action_id |-> as.action_id, param_id |-> as.param_id]

NoIds ==
  [table_id |-> None, match_field_id |-> None,
   action_id |-> None, param_id |-> None]

\* Mutant: any(...) in place of all(...).
IdsUsable_Any(r) ==
  \E x \in {r.table_id, r.match_field_id, r.action_id, r.param_id} : Truthy(x)

\* if not all([table_id, match_field_id, action_id, param_id]): return
IdsUsable(r) ==
  all(<<r.table_id, r.match_field_id, r.action_id, r.param_id>>)

(* -------------------------- request builders -------------------------- *)
\* election_id.high = 0; election_id.low = args.election_id
ElectionId(a) == [high |-> 0, low |-> a.election_id]

\* req of stream_requests: the initial MasterArbitrationUpdate.
InitialRequest(a) ==
  [update |-> "arbitration",
   arbitration |-> [device_id |-> a.device_id, election_id |-> ElectionId(a)]]

\* Mutant: the keep-alive takes its election id from the wrong argument.
KeepRequest_WrongId(a) ==
  [update |-> "arbitration",
   arbitration |-> [device_id |-> a.device_id,
                    election_id |-> [high |-> 0, low |-> a.device_id]]]

\* keep of stream_requests: the claim again, built from the same arguments.
KeepRequest(a) ==
  [update |-> "arbitration",
   arbitration |-> [device_id |-> a.device_id, election_id |-> ElectionId(a)]]

\* SetForwardingPipelineConfigRequest of main.
SetPipelineRequest(a, doc, blob) ==
  [rpc |-> "SetForwardingPipelineConfig",
   device_id |-> a.device_id,
   action |-> "VERIFY_AND_COMMIT",
   election_id |-> ElectionId(a),
   config |-> [p4info |-> doc, p4_device_config |-> blob]]

\* One Update of type INSERT holding the table entry of a rule.
InsertUpdate(r, rule) ==
  [type |-> "INSERT",
   table_entry |->
     [table_id |-> r.table_id,
      match |-> << [field_id |-> r.match_field_id,
                    lpm |-> [value |-> ipv4_to_bytes(rule.dst_ip).val,
                             prefix_len |-> rule.prefix_len]] >>,
      action |-> [action_id |-> r.action_id,
                  params |-> << [param_id |-> r.param_id,
                                 value |-> to_bytes(rule.out_port, 2).val] >>]]]

\* Mutant: the request batches the entries of all rules.
WriteRequest_Batched(a, r, rule) ==
  [rpc |-> "Write",
   device_id |-> a.device_id,
   election_id |-> ElectionId(a),
   updates |-> [i \in DOMAIN Rules |-> InsertUpdate(r, Rules[i])]]

\* WriteRequest built by insert_lpm(dst_ip, prefix_len, out_port).
WriteRequest(a, r, rule) ==
  [rpc |-> "Write",
   device_id |-> a.device_id,
   election_id |-> ElectionId(a),
   updates |-> << InsertUpdate(r, rule) >>]

\* insert_lpm raises before stub.Write when a conversion raises.
InsertRaises(rule) ==
  ~ipv4_to_bytes(rule.dst_ip).ok \/ ~to_bytes(rule.out_port, 2).ok

(* --------------------------- input documents -------------------------- *)
Entry(n, i) == [name |-> n, id |-> i]
Table(n, i, mfs) == [preamble |-> Entry(n, i), match_fields |-> mfs]
Action(n, i, ps) == [preamble |-> Entry(n, i), params |-> ps]

GoodTables ==
  << Table(OtherName, 5, <<Entry(match_field, 9)>>),
     Table(table_name, 1, <<Entry(OtherName, 3), Entry(match_field, 2)>>) >>
GoodActions ==
  << Action(OtherName, 6, <<Entry(PortParam, 8)>>),
     Action(action_name, 3, <<Entry(PortParam, 1)>>) >>

\* The program descriptions the controller run is checked with.
RunDocs ==
  { [tables |-> GoodTables, actions |-> GoodActions],
    [tables |-> GoodTables,
     actions |-> <<Action(action_name, 3,
                          <<Entry(OtherName, 4), Entry(PortParam, 5)>>)>>],
    [tables |-> GoodTables,
     actions |-> <<Action(action_name, 3,
                          <<Entry(OtherName, 4), Entry(OtherName, 5)>>)>>],
    [tables |-> <<Table(OtherName, 5, <<Entry(match_field, 9)>>)>>,
     actions |-> GoodActions],
    [tables |-> <<Table(table_name, 1, <<Entry(OtherName, 3)>>)>>,
     actions |-> GoodActions],
    [tables |-> GoodTables,
     actions |-> <<Action(OtherName, 6, <<Entry(PortParam, 8)>>)>>],
    [tables |-> GoodTables, actions |-> <<Action(action_name, 3, <<>>)>>],
    [tables |-> <<Table(table_name, 0, <<Entry(match_field, 2)>>)>>,
     actions |-> GoodActions] }

\* The program descriptions the lookup is checked with: every list of
\* tables and match fields holding at most MaxEntries entries in all (a
\* table counts one, each of its match fields one), beside the actions
\* above, and every such list of actions and parameters beside the tables
\* above; names are a requested one or another, ids are 0..MaxId.
IdSet == 0..MaxId
Entries(names) == [name : names, id : IdSet]

RECURSIVE Sum(_)
Sum(s) == IF s = <<>> THEN 0 ELSE Head(s) + Sum(Tail(s))

\* A shape gives, for each declaration of a list, how many entries are
\* nested in it; Shapes(n) are the shapes of at most n entries in all.
RECURSIVE Shapes(_)
Shapes(n) ==
  IF n <= 0 THEN {<<>>}
  ELSE {<<>>} \cup
       UNION {{<<k>> \o r : r \in Shapes(n - 1 - k)} : k \in 0..(n - 1)}

\* The nested entries of declaration i are a slice of the list kids.
Slice(shape, kids, i) ==
  LET before == Sum(SubSeq(shape, 1, i - 1))
  IN SubSeq(kids, before + 1, before + shape[i])

BuildTables(shape, pre, kids) ==
  [i \in DOMAIN shape |-> Table(pre[i].name, pre[i].id, Slice(shape, kids, i))]

BuildActions(shape, pre, kids) ==
  [i \in DOMAIN shape |-> Action(pre[i].name, pre[i].id, Slice(shape, kids, i))]

NoDoc == [tables |-> <<>>, actions |-> <<>>]
DeviceImage == "bmv2-json"
NoImage == "unset"
\* A file is readable (and, for the program description, parseable) or not.
Readable(content) == [ok |-> TRUE, data |-> content]
UnreadableDoc == [ok |-> FALSE, data |-> NoDoc]
UnreadableImage == [ok |-> FALSE, data |-> NoImage]

\* Messages the device can push on the stream: an arbitration update with
\* a status code (0 = OK, 6 = ALREADY_EXISTS, 7 = PERMISSION_DENIED are the
\* grpc codes a P4Runtime server uses here), or another kind of update.
DeviceMessages ==
  { [update |-> "arbitration", code |-> 0],
    [update |-> "arbitration", code |-> 6],
    [update |-> "packet", code |-> 0] }

(* -------------------------------- state ------------------------------- *)
VARIABLES
  args,          \* parsed command line: device_id, election_id
  files,         \* content of the --p4info and --json files (input)
  calls,         \* the insert_lpm calls main makes, in order, each with
                 \* its arguments (dst_ip, prefix_len, out_port)
  pc,            \* position of main
  exit,          \* "running", "returned", "exception" (uncaught) or
                 \* "interrupted" (uncaught KeyboardInterrupt)
  out,           \* lines printed, as tags
  p4info,        \* parsed program description (NoDoc before the load)
  device_config, \* device image blob (NoImage before the load)
  status,        \* arb_resp.arbitration.status.code (None before the read)
  ids,           \* table_id, match_field_id, action_id, param_id
  ruleIdx,       \* index in calls of the insert_lpm call in progress
  rpcs,          \* unary requests issued on the stub, in order
  replies,       \* the device's answers to them ("OK" or "ERROR"), in order
  genPc,         \* position of the generator stream_requests
  sleepStart,    \* time at which the generator's current sleep began
  sent,          \* requests the generator yielded to the stream, with time
  streamState,   \* "none", "open", "failed", "ended", "closed"
  inbox,         \* device messages on the stream not yet read
  received,      \* messages main has read from the stream, in order
  pushed,        \* number of messages the device has pushed
  openAt,        \* time at which the stream was opened
  now            \* model clock

vars ==
  << args, files, calls, pc, exit, out, p4info, device_config, status, ids,
     ruleIdx, rpcs, replies, genPc, sleepStart, sent, streamState, inbox,
     received, pushed, openAt, now >>

fgVars ==
  << pc, exit, out, p4info, device_config, status, ids, ruleIdx, rpcs,
     replies >>
genVars == << genPc, sleepStart, sent >>
inputVars == << args, files, calls >>

ArgSets ==
  { [device_id |-> 0, election_id |-> 10],
    [device_id |-> 1, election_id |-> 11] }
FileSets ==
  [p4info : {Readable(d) : d \in RunDocs} \cup {UnreadableDoc},
   json : {Readable(DeviceImage), UnreadableImage}]

InitRest ==
  /\ pc = "Start"
  /\ exit = "running"
  /\ out = <<>>
  /\ p4info = NoDoc
  /\ device_config = NoImage
  /\ status = None
  /\ ids = NoIds
  /\ ruleIdx = 1
  /\ rpcs = <<>>
  /\ replies = <<>>
  /\ genPc = "none"
  /\ sleepStart = 0
  /\ sent = <<>>
  /\ streamState = "none"
  /\ inbox = <<>>
  /\ received = <<>>
  /\ pushed = 0
  /\ openAt = 0
  /\ now = 0

Init ==
  /\ args \in ArgSets
  /\ files \in FileSets
  /\ calls = Rules
  /\ InitRest

(* ------------------------------- main --------------------------------- *)
Emit(line) == out' = Append(out, line)

\* The process ends: main returned or an exception left it. The channel
\* and its stream go away with the process, and so does the thread that
\* consumes the generator.
ProcessEnds(how) ==
  /\ pc' = "Closed"
  /\ exit' = how
  /\ streamState' = "closed"

\* What no step of main touches.
MainFrame ==
  /\ UNCHANGED << pushed, openAt, now >>
  /\ UNCHANGED inputVars

\* stream = stub.StreamChannel(stream_requests()): the call starts
\* consuming the generator on its own thread.
OpenStream ==
  /\ pc = "Start"
  /\ pc' = "AwaitArb"
  /\ streamState' = "open"
  /\ genPc' = "initial"
  /\ openAt' = now
  /\ UNCHANGED << exit, out, p4info, device_config, status, ids, ruleIdx,
                  rpcs, replies, sleepStart, sent, inbox, received, pushed,
                  now >>
  /\ UNCHANGED inputVars

\* Mutant: the status code is not checked.
AwaitArbitration_NoStatusCheck ==
  /\ pc = "AwaitArb"
  /\ UNCHANGED << p4info, device_config, ids, ruleIdx, rpcs, replies >>
  /\ UNCHANGED genVars
  /\ MainFrame
  /\ \/ /\ inbox # <<>>
        /\ inbox' = Tail(inbox)
        /\ received' = Append(received, Head(inbox))
        /\ IF Head(inbox).update # "arbitration"
           THEN /\ Emit("ERROR no arbitration")
                /\ ProcessEnds("returned")
                /\ UNCHANGED status
           ELSE /\ status' = Head(inbox).code
                /\ IF FALSE
                   THEN /\ Emit("ERROR not primary")
                        /\ ProcessEnds("returned")
                   ELSE /\ Emit("INFO became primary")
                        /\ pc' = "LoadP4Info"
                        /\ UNCHANGED << exit, streamState >>
     \/ /\ inbox = <<>>
        /\ streamState = "failed"
        /\ Emit("ERROR stream failed")
        /\ ProcessEnds("returned")
        /\ UNCHANGED << inbox, received, status >>
     \/ /\ inbox = <<>>
        /\ streamState = "ended"
        /\ ProcessEnds("exception")
        /\ UNCHANGED << out, inbox, received, status >>

\* Mutant: a reply that is no arbitration update is skipped and the next
\* one awaited.
AwaitArbitration_Skip ==
  /\ pc = "AwaitArb"
  /\ UNCHANGED << p4info, device_config, ids, ruleIdx, rpcs, replies >>
  /\ UNCHANGED genVars
  /\ MainFrame
  /\ \/ /\ inbox # <<>>
        /\ inbox' = Tail(inbox)
        /\ received' = Append(received, Head(inbox))
        /\ IF Head(inbox).update # "arbitration"
           THEN UNCHANGED << pc, exit, out, streamState, status >>
           ELSE /\ status' = Head(inbox).code
                /\ IF Head(inbox).code # 0
                   THEN /\ Emit("ERROR not primary")
                        /\ ProcessEnds("returned")
                   ELSE /\ Emit("INFO became primary")
                        /\ pc' = "LoadP4Info"
                        /\ UNCHANGED << exit, streamState >>
     \/ /\ inbox = <<>>
        /\ streamState = "failed"
        /\ Emit("ERROR stream failed")
        /\ ProcessEnds("returned")
        /\ UNCHANGED << inbox, received, status >>
     \/ /\ inbox = <<>>
        /\ streamState = "ended"
        /\ ProcessEnds("exception")
        /\ UNCHANGED << out, inbox, received, status >>

\* arb_resp = next(stream) and the checks on it.
AwaitArbitration ==
  /\ pc = "AwaitArb"
  /\ UNCHANGED << p4info, device_config, ids, ruleIdx, rpcs, replies >>
  /\ UNCHANGED genVars
  /\ MainFrame
  /\ \/ /\ inbox # <<>>
        /\ inbox' = Tail(inbox)
        /\ received' = Append(received, Head(inbox))
        /\ IF Head(inbox).update # "arbitration"
           THEN /\ Emit("ERROR no arbitration")
                /\ ProcessEnds("returned")
                /\ UNCHANGED status
           ELSE /\ status' = Head(inbox).code
                /\ IF Head(inbox).code # 0
                   THEN /\ Emit("ERROR not primary")
                        /\ ProcessEnds("returned")
                   ELSE /\ Emit("INFO became primary")
                        /\ pc' = "LoadP4Info"
                        /\ UNCHANGED << exit, streamState >>
     \/ /\ inbox = <<>>
        /\ streamState = "failed"
        /\ Emit("ERROR stream failed")
        /\ ProcessEnds("returned")
        /\ UNCHANGED << inbox, received, status >>
     \/ /\ inbox = <<>>
        /\ streamState = "ended"
        /\ ProcessEnds("exception")
        /\ UNCHANGED << out, inbox, received, status >>

\* Mutant: main goes on to the device image after a failed load of the
\* program description.
LoadP4Info_GoesOn ==
  /\ pc = "LoadP4Info"
  /\ UNCHANGED << device_config, status, ids, ruleIdx, rpcs, replies, inbox,
                  received >>
  /\ UNCHANGED genVars
  /\ MainFrame
  /\ pc' = "LoadJson"
  /\ UNCHANGED << exit, out, streamState >>
  /\ IF files.p4info.ok
     THEN p4info' = files.p4info.data
     ELSE UNCHANGED p4info

\* p4info = load_p4info(args.p4info)
LoadP4Info ==
  /\ pc = "LoadP4Info"
  /\ UNCHANGED << device_config, status, ids, ruleIdx, rpcs, replies, inbox,
                  received >>
  /\ UNCHANGED genVars
  /\ MainFrame
  /\ IF files.p4info.ok
     THEN /\ p4info' = files.p4info.data
          /\ pc' = "LoadJson"
          /\ UNCHANGED << exit, out, streamState >>
     ELSE /\ Emit("ERROR load p4info")
          /\ ProcessEnds("returned")
          /\ UNCHANGED p4info

\* device_config = load_json(args.json)
LoadJson ==
  /\ pc = "LoadJson"
  /\ UNCHANGED << p4info, status, ids, ruleIdx, rpcs, replies, inbox,
                  received >>
  /\ UNCHANGED genVars
  /\ MainFrame
  /\ IF files.json.ok
     THEN /\ device_config' = files.json.data
          /\ pc' = "Install"
          /\ UNCHANGED << exit, out, streamState >>
     ELSE /\ Emit("ERROR load json")
          /\ ProcessEnds("returned")
          /\ UNCHANGED device_config

\* Mutant: before the install, main takes a pending stream message and
\* ends when it is no primary arbitration update.
CallInstall_ChecksStream ==
  /\ pc = "Install"
  /\ UNCHANGED << p4info, device_config, ids, ruleIdx, replies >>
  /\ UNCHANGED genVars
  /\ MainFrame
  /\ IF inbox # <<>>
     THEN /\ inbox' = Tail(inbox)
          /\ received' = Append(received, Head(inbox))
          /\ status' = Head(inbox).code
          /\ UNCHANGED rpcs
          /\ IF Head(inbox) = [update |-> "arbitration", code |-> 0]
             THEN UNCHANGED << pc, exit, out, streamState >>
             ELSE /\ Emit("ERROR not primary")
                  /\ ProcessEnds("returned")
     ELSE /\ Emit("INFO installing pipeline")
          /\ rpcs' = Append(rpcs, SetPipelineRequest(args, p4info, device_config))
          /\ pc' = "InstallWait"
          /\ UNCHANGED << exit, status, streamState, inbox, received >>

\* Build set_req and call stub.SetForwardingPipelineConfig(set_req).
CallInstall ==
  /\ pc = "Install"
  /\ Emit("INFO installing pipeline")
  /\ rpcs' = Append(rpcs, SetPipelineRequest(args, p4info, device_config))
  /\ pc' = "InstallWait"
  /\ UNCHANGED << exit, p4info, device_config, status, ids, ruleIdx, replies,
                  streamState, inbox, received >>
  /\ UNCHANGED genVars
  /\ MainFrame

\* Mutant: main goes on after a failed install.
InstallReturn_GoesOn(ok) ==
  /\ pc = "InstallWait"
  /\ replies' = Append(replies, IF ok THEN "OK" ELSE "ERROR")
  /\ UNCHANGED << p4info, device_config, status, ids, ruleIdx, rpcs, inbox,
                  received >>
  /\ UNCHANGED genVars
  /\ MainFrame
  /\ IF ok
     THEN /\ Emit("INFO pipeline installed")
          /\ pc' = "Resolve"
          /\ UNCHANGED << exit, streamState >>
     ELSE /\ Emit("ERROR install failed")
          /\ pc' = "Resolve"
          /\ UNCHANGED << exit, streamState >>

\* Mutant: a failed install is tried again.
InstallReturn_Retry(ok) ==
  /\ pc = "InstallWait"
  /\ replies' = Append(replies, IF ok THEN "OK" ELSE "ERROR")
  /\ UNCHANGED << p4info, device_config, status, ids, ruleIdx, rpcs, inbox,
                  received >>
  /\ UNCHANGED genVars
  /\ MainFrame
  /\ UNCHANGED << exit, streamState >>
  /\ IF ok
     THEN /\ Emit("INFO pipeline installed")
          /\ pc' = "Resolve"
     ELSE /\ Emit("ERROR install failed")
          /\ pc' = "Install"

\* The install call returns, or raises grpc.RpcError.
InstallReturn(ok) ==
  /\ pc = "InstallWait"
  /\ replies' = Append(replies, IF ok THEN "OK" ELSE "ERROR")
  /\ UNCHANGED << p4info, device_config, status, ids, ruleIdx, rpcs, inbox,
                  received >>
  /\ UNCHANGED genVars
  /\ MainFrame
  /\ IF ok
     THEN /\ Emit("INFO pipeline installed")
          /\ pc' = "Resolve"
          /\ UNCHANGED << exit, streamState >>
     ELSE /\ Emit("ERROR install failed")
          /\ ProcessEnds("returned")

\* The two lookup loops and the all([...]) check.
Resolve ==
  /\ pc = "Resolve"
  /\ ids' = LookupIds(p4info)
  /\ UNCHANGED << p4info, device_config, status, ruleIdx, rpcs, replies,
                  inbox, received >>
  /\ UNCHANGED genVars
  /\ MainFrame
  /\ IF IdsUsable(LookupIds(p4info))
     THEN /\ pc' = "Insert"
          /\ UNCHANGED << exit, out, streamState >>
     ELSE /\ Emit("ERROR ids not found")
          /\ ProcessEnds("returned")

\* insert_lpm up to stub.Write(write_req).
CallWrite ==
  /\ pc = "Insert"
  /\ UNCHANGED << out, p4info, device_config, status, ids, ruleIdx, replies,
                  inbox, received >>
  /\ UNCHANGED genVars
  /\ MainFrame
  /\ IF InsertRaises(calls[ruleIdx])
     THEN /\ ProcessEnds("exception")
          /\ UNCHANGED rpcs
     ELSE /\ rpcs' = Append(rpcs, WriteRequest(args, ids, calls[ruleIdx]))
          /\ pc' = "WriteWait"
          /\ UNCHANGED << exit, streamState >>

\* Mutant: the grpc.RpcError of stub.Write is not caught.
WriteReturn_Uncaught(ok) ==
  /\ pc = "WriteWait"
  /\ replies' = Append(replies, IF ok THEN "OK" ELSE "ERROR")
  /\ UNCHANGED << p4info, device_config, status, ids, rpcs, inbox, received >>
  /\ UNCHANGED genVars
  /\ MainFrame
  /\ IF ~ok
     THEN /\ ProcessEnds("exception")
          /\ UNCHANGED << out, ruleIdx >>
     ELSE /\ UNCHANGED << exit, streamState >>
          /\ IF ruleIdx < Len(calls)
             THEN /\ out' = Append(out, "INFO inserted")
                  /\ ruleIdx' = ruleIdx + 1
                  /\ pc' = "Insert"
             ELSE /\ out' = out \o <<"INFO inserted", "INFO all entries inserted">>
                  /\ pc' = "Idle"
                  /\ UNCHANGED ruleIdx

\* stub.Write returns, or raises grpc.RpcError which insert_lpm catches;
\* main goes on to the next insert_lpm call, then to the idle loop.
WriteReturn(ok) ==
  /\ pc = "WriteWait"
  /\ replies' = Append(replies, IF ok THEN "OK" ELSE "ERROR")
  /\ UNCHANGED << exit, p4info, device_config, status, ids, rpcs, streamState,
                  inbox, received >>
  /\ UNCHANGED genVars
  /\ MainFrame
  /\ LET line == IF ok THEN "INFO inserted" ELSE "ERROR write failed"
     IN IF ruleIdx < Len(calls)
        THEN /\ out' = Append(out, line)
             /\ ruleIdx' = ruleIdx + 1
             /\ pc' = "Insert"
        ELSE /\ out' = out \o <<line, "INFO all entries inserted">>
             /\ pc' = "Idle"
             /\ UNCHANGED ruleIdx

\* Mutant: on the interrupt in the idle loop main itself sends a release
\* (an arbitration update with election id 0) on the stream.
Interrupt_SendsRelease ==
  /\ pc # "Closed"
  /\ IF pc = "Idle"
     THEN /\ Emit("INFO exiting")
          /\ ProcessEnds("returned")
          /\ sent' = Append(sent,
               [msg |-> [update |-> "arbitration",
                         arbitration |->
                           [device_id |-> args.device_id,
                            election_id |-> [high |-> 0, low |-> 0]]],
                at |-> now])
     ELSE /\ ProcessEnds("interrupted")
          /\ UNCHANGED << out, sent >>
  /\ UNCHANGED << p4info, device_config, status, ids, ruleIdx, rpcs, replies,
                  inbox, received >>
  /\ UNCHANGED << genPc, sleepStart >>
  /\ MainFrame

\* KeyboardInterrupt: caught only around the idle loop; anywhere else it
\* leaves main as an uncaught exception.
Interrupt ==
  /\ pc # "Closed"
  /\ IF pc = "Idle"
     THEN /\ Emit("INFO exiting")
          /\ ProcessEnds("returned")
     ELSE /\ ProcessEnds("interrupted")
          /\ UNCHANGED out
  /\ UNCHANGED << p4info, device_config, status, ids, ruleIdx, rpcs, replies,
                  inbox, received >>
  /\ UNCHANGED genVars
  /\ MainFrame

(* -------------------------- stream_requests --------------------------- *)
\* The generator runs while the process lives and the stream is open.
GeneratorRuns == pc # "Closed" /\ streamState = "open"

Yield(req) == sent' = Append(sent, [msg |-> req, at |-> now])

\* The initial MasterArbitrationUpdate, then the first time.sleep(2).
YieldInitial ==
  /\ GeneratorRuns
  /\ genPc = "initial"
  /\ Yield(InitialRequest(args))
  /\ genPc' = "sleeping"
  /\ sleepStart' = now
  /\ UNCHANGED << streamState, inbox, received, pushed, openAt, now >>
  /\ UNCHANGED fgVars
  /\ UNCHANGED inputVars

\* Mutant: the sleep is one second short.
YieldKeep_ShortSleep ==
  /\ GeneratorRuns
  /\ genPc = "sleeping"
  /\ now >= sleepStart + SleepInterval - 1
  /\ Yield(KeepRequest(args))
  /\ sleepStart' = now
  /\ UNCHANGED << genPc, streamState, inbox, received, pushed, openAt, now >>
  /\ UNCHANGED fgVars
  /\ UNCHANGED inputVars

\* time.sleep(2) returned (it sleeps at least 2 seconds): yield keep and
\* sleep again.
YieldKeep ==
  /\ GeneratorRuns
  /\ genPc = "sleeping"
  /\ now >= sleepStart + SleepInterval
  /\ Yield(KeepRequest(args))
  /\ sleepStart' = now
  /\ UNCHANGED << genPc, streamState, inbox, received, pushed, openAt, now >>
  /\ UNCHANGED fgVars
  /\ UNCHANGED inputVars

(* ------------------------------ device -------------------------------- *)
\* The device pushes a message on the stream after it got the claim.
DevicePush(m) ==
  /\ streamState = "open"
  /\ sent # <<>>
  /\ pushed < MaxInbox
  /\ inbox' = Append(inbox, m)
  /\ pushed' = pushed + 1
  /\ UNCHANGED << streamState, received, openAt, now >>
  /\ UNCHANGED fgVars
  /\ UNCHANGED genVars
  /\ UNCHANGED inputVars

\* The stream breaks with an error status, or the device ends it cleanly.
StreamStops(how) ==
  /\ streamState = "open"
  /\ streamState' = how
  /\ UNCHANGED << inbox, received, pushed, openAt, now >>
  /\ UNCHANGED fgVars
  /\ UNCHANGED genVars
  /\ UNCHANGED inputVars

\* One second passes.
Tick ==
  /\ now < MaxTime
  /\ now' = now + 1
  /\ UNCHANGED << streamState, inbox, received, pushed, openAt >>
  /\ UNCHANGED fgVars
  /\ UNCHANGED genVars
  /\ UNCHANGED inputVars

Next ==
  \/ OpenStream
  \/ AwaitArbitration
  \/ LoadP4Info
  \/ LoadJson
  \/ CallInstall
  \/ \E ok \in BOOLEAN : InstallReturn(ok)
  \/ Resolve
  \/ CallWrite
  \/ \E ok \in BOOLEAN : WriteReturn(ok)
  \/ Interrupt
  \/ YieldInitial
  \/ YieldKeep
  \/ \E m \in DeviceMessages : DevicePush(m)
  \/ \E how \in {"failed", "ended"} : StreamStops(how)
  \/ Tick

Spec == Init /\ [][Next]_vars

(* ----------------------- lookup, from any document -------------------- *)
\* main right after a successful install (election id 10, device id 0, the
\* device answered at once), with a program description built from a
\* list of tables or a list of actions of at most MaxEntries entries.
InitSchema ==
  /\ args = [device_id |-> 0, election_id |-> 10]
  /\ \E shape \in Shapes(MaxEntries) :
       \/ \E pre \in [1..Len(shape) -> Entries({table_name, OtherName})] :
            \E kids \in [1..Sum(shape) -> Entries({match_field, OtherName})] :
              p4info = [tables |-> BuildTables(shape, pre, kids),
                        actions |-> GoodActions]
       \/ \E pre \in [1..Len(shape) -> Entries({action_name, OtherName})] :
            \E kids \in [1..Sum(shape) -> Entries({PortParam, OtherName})] :
              p4info = [tables |-> GoodTables,
                        actions |-> BuildActions(shape, pre, kids)]
  /\ files = [p4info |-> Readable(p4info), json |-> Readable(DeviceImage)]
  /\ calls = Rules
  /\ rpcs = <<SetPipelineRequest(args, p4info, DeviceImage)>>
  /\ pc = "Resolve"
  /\ exit = "running"
  /\ out = <<"INFO became primary", "INFO installing pipeline",
             "INFO pipeline installed">>
  /\ device_config = DeviceImage
  /\ status = 0
  /\ ids = NoIds
  /\ ruleIdx = 1
  /\ replies = <<"OK">>
  /\ genPc = "sleeping"
  /\ sleepStart = 0
  /\ sent = <<[msg |-> InitialRequest(args), at |-> 0]>>
  /\ streamState = "open"
  /\ inbox = <<>>
  /\ received = <<[update |-> "arbitration", code |-> 0]>>
  /\ pushed = 1
  /\ openAt = 0
  /\ now = 0

NextSchema ==
  \/ Resolve
  \/ CallWrite
  \/ \E ok \in BOOLEAN : WriteReturn(ok)

SpecSchema == InitSchema /\ [][NextSchema]_vars

(* ------------------- insert_lpm with any arguments --------------------- *)
\* Texts between the dots of a dst_ip argument: decimal numbers inside and
\* outside range(256), a number with a leading zero, the empty text and a
\* text that int() rejects.
OctetTexts ==
  { <<"0">>, <<"1", "0">>, <<"2", "5", "5">>, <<"2", "5", "6">>,
    <<"0", "1">>, <<>>, <<"x">> }

\* out_port arguments on both sides of the 1-byte and the 2-byte limits.
PortValues == {0, 1, 255, 256, 258, 65535, 65536, 65537, 65794}

\* sep.join(parts).
RECURSIVE Join(_, _)
Join(parts, sep) ==
  IF parts = <<>> THEN <<>>
  ELSE IF Len(parts) = 1 THEN parts[1]
  ELSE parts[1] \o <<sep>> \o Join(Tail(parts), sep)

\* main after the identifiers were resolved from the usual program
\* description, about to make one insert_lpm call whose arguments are
\* arbitrary: a dst_ip of at most MaxParts pieces, or an out_port of any
\* size.
InitInsert ==
  /\ args = [device_id |-> 0, election_id |-> 10]
  /\ p4info = [tables |-> GoodTables, actions |-> GoodActions]
  /\ files = [p4info |-> Readable(p4info), json |-> Readable(DeviceImage)]
  /\ \/ \E n \in 1..MaxParts : \E f \in [1..n -> OctetTexts] :
          calls = << [dst_ip |-> Join(f, "."), prefix_len |-> 32,
                      out_port |-> 1] >>
     \/ \E port \in PortValues : \E len \in {0, 24, 32} :
          calls = << [dst_ip |-> IP1, prefix_len |-> len, out_port |-> port] >>
  /\ rpcs = <<SetPipelineRequest(args, p4info, DeviceImage)>>
  /\ pc = "Insert"
  /\ exit = "running"
  /\ out = <<"INFO became primary", "INFO installing pipeline",
             "INFO pipeline installed">>
  /\ device_config = DeviceImage
  /\ status = 0
  /\ ids = LookupIds(p4info)
  /\ ruleIdx = 1
  /\ replies = <<"OK">>
  /\ genPc = "sleeping"
  /\ sleepStart = 0
  /\ sent = <<[msg |-> InitialRequest(args), at |-> 0]>>
  /\ streamState = "open"
  /\ inbox = <<>>
  /\ received = <<[update |-> "arbitration", code |-> 0]>>
  /\ pushed = 1
  /\ openAt = 0
  /\ now = 0

NextInsert ==
  \/ CallWrite
  \/ \E ok \in BOOLEAN : WriteReturn(ok)

SpecInsert == InitInsert /\ [][NextInsert]_vars

(* ------------------------------ claims -------------------------------- *)
IsWrite(r) == r.rpc = "Write"
IsInstall(r) == r.rpc = "SetForwardingPipelineConfig"
Writes == SelectSeq(rpcs, IsWrite)
Printed(line) == \E i \in DOMAIN out : out[i] = line
PrimaryReply == [update |-> "arbitration", code |-> 0]

\* C1: a Write request is issued only after the first stream reply was an
\* arbitration update with status code 0 and after an earlier
\* SetForwardingPipelineConfig call returned successfully.
C1_WriteOnlyAfterPrimaryAndInstall ==
  \A i \in DOMAIN rpcs :
    IsWrite(rpcs[i]) =>
      /\ received # <<>>
      /\ received[1] = PrimaryReply
      /\ status = 0
      /\ \E j \in 1..(i - 1) :
           IsInstall(rpcs[j]) /\ j <= Len(replies) /\ replies[j] = "OK"

C1_Witness == pc = "WriteWait" /\ Len(Writes) = 1

C3_NonPrimaryAborts ==
  (received # <<>> /\ received[1].update = "arbitration"
     /\ received[1].code # 0) =>
    /\ pc = "Closed"
    /\ exit = "returned"
    /\ streamState = "closed"
    /\ rpcs = <<>>
    /\ out = <<"ERROR not primary">>

C3_Witness ==
  received = <<[update |-> "arbitration", code |-> 6]>> /\ pc = "Closed"

\* C4: after a first message that is not an arbitration update, main has
\* reported the error and ended; the message was the only one read (later
\* messages stay unread) and no unary request was issued.
C4_NoArbitrationIsError ==
  (received # <<>> /\ received[1].update # "arbitration") =>
    /\ Len(received) = 1
    /\ pc = "Closed"
    /\ exit = "returned"
    /\ rpcs = <<>>
    /\ out = <<"ERROR no arbitration">>

C4_Witness ==
  /\ received = <<[update |-> "packet", code |-> 0]>>
  /\ inbox = <<PrimaryReply>>
  /\ pc = "Closed"

\* C5: a rejected Write is reported and ends nothing: after the Write of the
\* first rule was rejected, main is about to issue, or has issued, the Write
\* of the second rule, and after the second Write returned it idles; only an
\* interrupt takes it elsewhere.
C5_WriteErrorNotFatal ==
  (Len(replies) >= 2 /\ replies[2] = "ERROR") =>
    /\ Printed("ERROR write failed")
    /\ exit # "exception"
    /\ exit = "returned" => Printed("INFO exiting")
    /\ exit = "running" =>
         \/ pc = "Insert" /\ ruleIdx = 2 /\ Len(Writes) = 1
         \/ /\ pc = "WriteWait"
            /\ Len(Writes) = 2
            /\ Writes[2].updates[1].table_entry.match[1].lpm.value
                 = <<10, 0, 0, 2>>
         \/ pc = "Idle" /\ Len(Writes) = 2 /\ Len(replies) = 3

C5_Witness ==
  /\ replies = <<"OK", "ERROR", "OK">>
  /\ pc = "Idle"
  /\ Len(Writes) = 2

\* C6: main issues at most two Write requests, the first for destination
\* 10.0.0.1 and the second for 10.0.0.2, each with exactly one INSERT update
\* holding one LPM match (4 address bytes, prefix length 32) and one action
\* parameter; when main idles it has issued exactly two.
C6_TwoSingleInsertWrites ==
  /\ Len(Writes) <= 2
  /\ \A i \in DOMAIN Writes :
       LET w == Writes[i]
       IN /\ Len(w.updates) = 1
          /\ w.updates[1].type = "INSERT"
          /\ Len(w.updates[1].table_entry.match) = 1
          /\ w.updates[1].table_entry.match[1].lpm.value = <<10, 0, 0, i>>
          /\ w.updates[1].table_entry.match[1].lpm.prefix_len = 32
          /\ Len(w.updates[1].table_entry.action.params) = 1
  /\ pc = "Idle" => Len(Writes) = 2
  /\ Printed("INFO all entries inserted") => Len(Writes) = 2

C6_Witness == pc = "Idle" /\ Len(Writes) = 2 /\ replies = <<"OK", "OK", "OK">>

(* What a program description declares, read off the document. *)
TablesNamed(doc) ==
  {i \in DOMAIN doc.tables : doc.tables[i].preamble.name = table_name}
ActionsNamed(doc) ==
  {i \in DOMAIN doc.actions : doc.actions[i].preamble.name = action_name}
FieldsNamed(t) ==
  {j \in DOMAIN t.match_fields : t.match_fields[j].name = match_field}
PortsOf(a) == {j \in DOMAIN a.params : a.params[j].name = PortParam}
Resolved == pc # "Resolve"

\* The requested names are declared, each once: one table with the requested
\* name holding one match field with the requested name, one action with the
\* requested name holding one parameter named port.
DeclaresAll(doc) ==
  /\ Cardinality(TablesNamed(doc)) = 1
  /\ \A i \in TablesNamed(doc) :
       Cardinality(FieldsNamed(doc.tables[i])) = 1
  /\ Cardinality(ActionsNamed(doc)) = 1
  /\ \A i \in ActionsNamed(doc) : Cardinality(PortsOf(doc.actions[i])) = 1

DeclaredIds(doc) ==
  LET t == doc.tables[CHOOSE i \in TablesNamed(doc) : TRUE]
      a == doc.actions[CHOOSE i \in ActionsNamed(doc) : TRUE]
  IN [table_id |-> t.preamble.id,
      match_field_id |->
        t.match_fields[CHOOSE j \in FieldsNamed(t) : TRUE].id,
      action_id |-> a.preamble.id,
      param_id |-> a.params[CHOOSE j \in PortsOf(a) : TRUE].id]

\* C8: for every program description that declares the requested table
\* with the requested match field and the requested action with a parameter
\* named port, the lookup succeeds and yields the four identifiers of those
\* entries, whatever their values and whatever else is declared.
C8_LookupSucceedsForAnyIds ==
  (Resolved /\ DeclaresAll(p4info)) =>
    /\ pc # "Closed"
    /\ ids = DeclaredIds(p4info)

\* One of the four identifiers cannot be resolved: no table with the
\* requested name, no requested match field in the first such table, no
\* action with the requested name, or no parameter in the first such action.
Unresolvable(doc) ==
  \/ TablesNamed(doc) = {}
  \/ /\ TablesNamed(doc) # {}
     /\ FieldsNamed(doc.tables[Min(TablesNamed(doc))]) = {}
  \/ ActionsNamed(doc) = {}
  \/ /\ ActionsNamed(doc) # {}
     /\ doc.actions[Min(ActionsNamed(doc))].params = <<>>

\* C9: when one of the four identifiers cannot be resolved, the lookup fails
\* as a whole: main reports it and returns, and no Write request is issued.
C9_UnresolvedAborts ==
  (Resolved /\ Unresolvable(p4info)) =>
    /\ pc = "Closed"
    /\ exit = "returned"
    /\ Printed("ERROR ids not found")
    /\ Writes = <<>>

C9_Witness ==
  /\ TablesNamed(p4info) = {}
  /\ p4info.tables # <<>>
  /\ ActionsNamed(p4info) # {}
  /\ pc = "Closed"

\* C10: when the chosen action has parameters none of which is named port,
\* param_id is the id of its first parameter; when it has a parameter named
\* port, param_id is the id of a parameter named port, first or not.
C10_PortPreferredElseFirst ==
  (Resolved /\ ActionsNamed(p4info) # {}) =>
    LET a == p4info.actions[Min(ActionsNamed(p4info))]
    IN /\ (a.params # <<>> /\ PortsOf(a) = {}) =>
            ids.param_id = a.params[1].id
       /\ PortsOf(a) # {} =>
            \E j \in PortsOf(a) : ids.param_id = a.params[j].id

C10_Witness ==
  /\ p4info.actions =
       <<Action(action_name, 1, <<Entry(OtherName, 0), Entry(PortParam, 1)>>)>>
  /\ pc = "WriteWait"
  /\ rpcs[Len(rpcs)].updates[1].table_entry.action.params[1].param_id = 1

(* Keep-alives (every message of the generator after the first) sent at a
   time t with a < t <= b. *)
KeepsIn(a, b) ==
  Cardinality({i \in 2..Len(sent) : a < sent[i].at /\ sent[i].at <= b})

\* The generator has been on time so far: the initial claim went out when
\* the stream opened, every keep-alive exactly SleepInterval after the
\* message before it, and none is overdue.
OnTime ==
  /\ GeneratorRuns
  /\ sent # <<>>
  /\ sent[1].at = openAt
  /\ \A i \in 2..Len(sent) : sent[i].at = sent[i - 1].at + SleepInterval
  /\ now < sleepStart + SleepInterval

\* C7 as claimed, with a generator that has been on time: while the stream
\* is open, every window of N time units holds exactly N div 2 keep-alives.
C7_ExactlyHalfInAnyWindow ==
  OnTime =>
    \A a \in openAt..now : \A b \in a..now :
      KeepsIn(a, b) = (b - a) \div SleepInterval

\* C7 amended: a window of N time units holds at most (N + 1) div 2
\* keep-alives, and at most N div 2 when it starts as the stream opens;
\* measured from the opening of the stream the number is exactly N div 2
\* as long as the generator has been on time. None of this depends on the
\* position of main.
C7_AtMostHalfInAnyWindow ==
  /\ \A a \in openAt..now : \A b \in a..now :
       KeepsIn(a, b) <= (b - a + 1) \div 2
  /\ \A b \in openAt..now : KeepsIn(openAt, b) <= (b - openAt) \div 2
  /\ OnTime => KeepsIn(openAt, now) = (now - openAt) \div 2

C7_Witness ==
  /\ pc = "WriteWait"
  /\ OnTime
  /\ openAt = 0
  /\ now = 4
  /\ KeepsIn(0, 4) = 2

(* ------------------------ insert_lpm arguments ------------------------ *)
\* The single insert_lpm call of SpecInsert and what became of it.
TheCall == calls[1]
InsertDone == pc \in {"WriteWait", "Idle", "Closed"}
PortBytes(w) == w.updates[1].table_entry.action.params[1].value
AddrBytes(w) == w.updates[1].table_entry.match[1].lpm.value
BigEndian2(n) == << (n \div 256) % 256, n % 256 >>

\* C11 as stated: whatever out_port is, insert_lpm ends without an error
\* and has issued one Write whose parameter value is the low 16 bits of
\* out_port as 2 bytes, most significant first.
C11_TruncatesSilently ==
  (InsertDone /\ TheCall.dst_ip = IP1) =>
    /\ exit # "exception"
    /\ Len(Writes) = 1
    /\ PortBytes(Writes[1]) = BigEndian2(TheCall.out_port)

\* C11 amended: an out_port below 65536 is written as its 2 bytes, most
\* significant first; an out_port of 65536 or more raises an error that
\* nothing catches, so the process ends and no Write is issued.
C11_TwoBytesOrOverflow ==
  (InsertDone /\ TheCall.dst_ip = IP1) =>
    IF TheCall.out_port < 65536
    THEN /\ exit # "exception"
         /\ Len(Writes) = 1
         /\ Len(PortBytes(Writes[1])) = 2
         /\ PortBytes(Writes[1]) = BigEndian2(TheCall.out_port)
    ELSE /\ exit = "exception"
         /\ pc = "Closed"
         /\ Writes = <<>>

C11_Witness ==
  /\ InsertDone
  /\ TheCall.dst_ip = IP1
  /\ TheCall.out_port = 65537
  /\ exit = "exception"
  /\ Writes = <<>>

\* The pieces of a dotted text are all unsigned decimal numbers.
DottedDecimal(ip) ==
  \A i \in DOMAIN Split(ip, ".") : IntOk(Split(ip, ".")[i])
\* Exactly 4 decimal pieces, each at most 255.
ValidAddress(ip) ==
  /\ DottedDecimal(ip)
  /\ Len(Split(ip, ".")) = 4
  /\ \A i \in DOMAIN Split(ip, ".") : IntVal(Split(ip, ".")[i]) <= 255

\* C12: a dotted-decimal dst_ip that does not have exactly 4 pieces, or
\* that has a piece above 255, makes insert_lpm fail with an error and
\* issue no Write.
C12_MalformedAddressRejected ==
  (InsertDone /\ DottedDecimal(TheCall.dst_ip)
     /\ ~ValidAddress(TheCall.dst_ip)) =>
    /\ exit = "exception"
    /\ Writes = <<>>

\* Decimal text of a natural number, and the dotted text of a byte string.
RECURSIVE Dec(_)
Dec(n) ==
  IF n < 10 THEN << DigitChars[n + 1] >>
  ELSE Append(Dec(n \div 10), DigitChars[(n % 10) + 1])
Render(b) == Join([i \in DOMAIN b |-> Dec(b[i])], ".")
\* A valid address none of whose pieces has a superfluous leading zero.
Canonical(ip) ==
  /\ ValidAddress(ip)
  /\ \A i \in DOMAIN Split(ip, ".") :
       Len(Split(ip, ".")[i]) > 1 => Head(Split(ip, ".")[i]) # "0"
\* The bytes are the values of the 4 pieces, in order.
BytesAreOctets(ip, b) ==
  /\ Len(b) = 4
  /\ \A i \in 1..4 : b[i] = IntVal(Split(ip, ".")[i])

\* C13 as stated: for every address of 4 decimal pieces, each at most 255
\* (and an out_port that fits), the value written is 4 bytes, the i-th being the value of the i-th
\* piece, and the dotted text of those bytes is the address again.
C13_RoundTripOfAnyValid ==
  (InsertDone /\ ValidAddress(TheCall.dst_ip) /\ TheCall.out_port < 65536) =>
    /\ Len(Writes) = 1
    /\ BytesAreOctets(TheCall.dst_ip, AddrBytes(Writes[1]))
    /\ Render(AddrBytes(Writes[1])) = TheCall.dst_ip

\* C13 amended: the 4 bytes are the values of the pieces for every valid
\* address; the dotted text of the bytes is the address again when no
\* piece is written with a leading zero.
C13_RoundTripOfCanonical ==
  (InsertDone /\ ValidAddress(TheCall.dst_ip) /\ TheCall.out_port < 65536) =>
    /\ Len(Writes) = 1
    /\ BytesAreOctets(TheCall.dst_ip, AddrBytes(Writes[1]))
    /\ Canonical(TheCall.dst_ip) =>
         Render(AddrBytes(Writes[1])) = TheCall.dst_ip
    /\ ValidAddress(Render(AddrBytes(Writes[1])))
    /\ ipv4_to_bytes(Render(AddrBytes(Writes[1]))).val = AddrBytes(Writes[1])

C13_Witness ==
  /\ InsertDone
  /\ Len(Writes) = 1
  /\ TheCall.dst_ip = Join(<< <<"1", "0">>, <<"2", "5", "5">>, <<"0">>,
                              <<"1", "0">> >>, ".")
  /\ AddrBytes(Writes[1]) = <<10, 255, 0, 10>>
  /\ Render(AddrBytes(Writes[1])) = TheCall.dst_ip

(* --------------------------- control flow ----------------------------- *)
\* C14: an interrupt that arrives once the stream has been opened, whatever
\* main is doing, takes the graceful path: the exit message is printed,
\* main returns and the stream is closed.
C14_InterruptIsGraceful ==
  [][(pc # "Start" /\ Interrupt) =>
       /\ out' = Append(out, "INFO exiting")
       /\ exit' = "returned"
       /\ streamState' = "closed"]_vars

\* Both input files have been loaded.
Loaded == p4info # NoDoc /\ device_config # NoImage
Installs == SelectSeq(rpcs, IsInstall)
\* From the install on, each step starts after the previous one succeeded:
\* install after primary and loading, resolution after a successful
\* install, Writes after a successful resolution, idling after the reply
\* to the last Write.
LaterStepsInOrder ==
  /\ Installs # <<>> =>
       Loaded /\ received # <<>> /\ received[1] = PrimaryReply
  /\ ids # NoIds => replies # <<>> /\ replies[1] = "OK"
  /\ Writes # <<>> => IdsUsable(ids) /\ replies[1] = "OK"
  /\ pc = "Idle" => Len(Writes) = Len(calls) /\ Len(replies) = Len(rpcs)

\* C15 as stated: the steps run in the order load files, open the stream
\* and become primary, install, resolve, insert, idle; so whenever the
\* stream has been opened both files have been loaded.
C15_FilesLoadedBeforeStream ==
  /\ streamState # "none" => Loaded
  /\ LaterStepsInOrder

\* C15 amended: the stream is opened and the primary role obtained first;
\* the program description is loaded only after the primary reply, the
\* device image only after the program description; then install,
\* resolve, insert, idle, each after the previous one succeeded.
C15_StreamOpenedBeforeFiles ==
  /\ p4info # NoDoc =>
       /\ streamState # "none"
       /\ received # <<>> /\ received[1] = PrimaryReply /\ status = 0
  /\ device_config # NoImage => p4info # NoDoc
  /\ LaterStepsInOrder

C15_Witness ==
  /\ pc = "LoadJson"
  /\ streamState = "open"
  /\ received = <<PrimaryReply>>
  /\ p4info # NoDoc
  /\ device_config = NoImage

\* What main prints when it gives up before the first insert_lpm.
FailureLines ==
  {"ERROR stream failed", "ERROR no arbitration", "ERROR not primary",
   "ERROR load p4info", "ERROR load json", "ERROR install failed",
   "ERROR ids not found"}

\* C16: nothing is retried. The stream is opened once (only by the first
\* step of main), at most one stream reply is read, at most one install
\* request is issued, the k-th Write is the one of the k-th insert_lpm call
\* and there is no other; a step that reports a failure ends main at once
\* without a further request, and an ended main issues nothing.
C16_NoRetry ==
  [][/\ (streamState # "open" /\ streamState' = "open") =>
          streamState = "none" /\ pc = "Start"
     /\ pc # "Start" => pc' # "Start"
     /\ Len(received') <= 1
     /\ Len(Installs') <= 1
     /\ Len(Writes') <= Len(calls)
     /\ \A k \in DOMAIN Writes' : Writes'[k] = WriteRequest(args, ids, calls[k])
     /\ (out' # out /\ out'[Len(out')] \in FailureLines) =>
          pc' = "Closed" /\ rpcs' = rpcs
     /\ pc = "Closed" => pc' = "Closed" /\ rpcs' = rpcs]_vars

C16_Witness ==
  /\ pc = "Closed"
  /\ Printed("ERROR install failed")
  /\ Len(Installs) = 1
  /\ replies = <<"ERROR">>
  /\ Writes = <<>>

\* A device message that would take the primary role away.
Demotion == [update |-> "arbitration", code |-> 6]

\* C17: once the first stream reply has been read, no step reads the stream
\* again: messages only pile up unread, the recorded status stays, and the
\* arrival of a message changes nothing main has or does.
C17_LaterMessagesIgnored ==
  [][received # <<>> =>
       /\ received' = received
       /\ status' = status
       /\ Len(inbox') >= Len(inbox)
       /\ inbox' # inbox =>
            /\ inbox' = Append(inbox, inbox'[Len(inbox')])
            /\ UNCHANGED fgVars]_vars

\* A demotion arrived after the primary reply and lies unread while main,
\* having installed the pipeline and issued both Writes, idles as primary.
C17_Witness ==
  /\ pc = "Idle"
  /\ received = <<PrimaryReply>>
  /\ inbox = <<Demotion>>
  /\ status = 0
  /\ Len(Installs) = 1
  /\ Len(Writes) = 2

(* --------------------------- lookup order ----------------------------- *)
\* C18: each of the four lookups returns the identifier of the first
\* declared entry with the requested name: the first such table, the first
\* such match field of that table, the first such action, the first
\* parameter named port of that action.
C18_FirstMatchWins ==
  Resolved =>
    /\ TablesNamed(p4info) # {} =>
         LET t == p4info.tables[Min(TablesNamed(p4info))]
         IN /\ ids.table_id = t.preamble.id
            /\ FieldsNamed(t) # {} =>
                 ids.match_field_id = t.match_fields[Min(FieldsNamed(t))].id
    /\ ActionsNamed(p4info) # {} =>
         LET a == p4info.actions[Min(ActionsNamed(p4info))]
         IN /\ ids.action_id = a.preamble.id
            /\ PortsOf(a) # {} =>
                 ids.param_id = a.params[Min(PortsOf(a))].id

(* --------------------------- stream sends ----------------------------- *)
\* The arbitration claim of this controller, written out.
Claim ==
  [update |-> "arbitration",
   arbitration |-> [device_id |-> args.device_id,
                    election_id |-> [high |-> 0, low |-> args.election_id]]]

NoInterrupt == exit # "interrupted" /\ ~Printed("INFO exiting")
\* Each of the four lookups found an entry.
AllFound ==
  /\ ids.table_id # None
  /\ ids.match_field_id # None
  /\ ids.action_id # None
  /\ ids.param_id # None

\* C20: without an interrupt, main ends up idling exactly when the first
\* reply was primary, both files were loaded, the install succeeded and
\* the four identifiers were found, and by then both Writes were issued
\* and answered; otherwise it ends up closed.
C20_IdleExactlyWhenAllSucceeded ==
  (pc \in {"Idle", "Closed"} /\ NoInterrupt) =>
    /\ (pc = "Idle") <=>
         /\ received # <<>> /\ received[1] = PrimaryReply
         /\ Loaded
         /\ replies # <<>> /\ replies[1] = "OK"
         /\ AllFound
    /\ pc = "Idle" => Len(Writes) = 2 /\ Len(replies) = 3

====
